---- MODULE Spec2Model ----
(***************************************************************************)
(* The CHIP-8 machine of src/core.rs: the machine state, the loader, the   *)
(* opcode assembly, the instruction semantics of Machine::execute and the  *)
(* fetch-decode-execute loop of Machine::start.                            *)
(*                                                                         *)
(* Integers keep the width of their Rust type (u8, u16).  An arithmetic    *)
(* overflow panics in a build with overflow checks (debug) and wraps in a  *)
(* build without them (release): overflow_checks is the build's choice.    *)
(* An index outside an array or slice panics in every build.               *)
(***************************************************************************)
EXTENDS Integers, Sequences, FiniteSets, TLC

\* ---------------------------------------------------------------- constants
MEMORY_SIZE == 4096
STACK_SIZE == 16
REGISTER_COUNT == 16
PROGRAM_OFFSET == 512
FLAG_REGISTER == 15
BUFSIZE == MEMORY_SIZE - PROGRAM_OFFSET

U8_MAX == 255
U16_MAX == 65535

\* ---------------------------------------------------------------- bounds
\* Instructions one unit test executes directly (SpecTest).
MaxOps == 3
\* Bytes by which the over-long ROM files exceed the capacity of memory.
MaxExcess == 2

\* ---------------------------------------------------------------- bit operations
RECURSIVE BitAnd(_, _)
BitAnd(a, b) ==
    IF a = 0 \/ b = 0 THEN 0
    ELSE (a % 2) * (b % 2) + 2 * BitAnd(a \div 2, b \div 2)

RECURSIVE BitOr(_, _)
BitOr(a, b) ==
    IF a = 0 THEN b
    ELSE IF b = 0 THEN a
    ELSE (IF a % 2 = 1 \/ b % 2 = 1 THEN 1 ELSE 0) + 2 * BitOr(a \div 2, b \div 2)

RECURSIVE BitXor(_, _)
BitXor(a, b) ==
    IF a = 0 THEN b
    ELSE IF b = 0 THEN a
    ELSE ((a + b) % 2) + 2 * BitXor(a \div 2, b \div 2)

\* ---------------------------------------------------------------- instructions
\* An Instruction value: the variant's name and its (at most two) operands.
Ins(name, a, b) == [op |-> name, a |-> a, b |-> b]

NoInstruction == Ins("none", 0, 0)

\* The decoder (crate::instructions, crate::opcodes): the CHIP-8 opcode
\* layout.  "Invalid" stands for the decoder's error result.
Decode(opcode) ==
    LET n1  == opcode \div 4096
        x   == (opcode \div 256) % 16
        y   == (opcode \div 16) % 16
        n   == opcode % 16
        kk  == opcode % 256
        nnn == opcode % 4096
    IN  IF opcode = 224 THEN Ins("ClearScreen", 0, 0)          \* 00E0
        ELSE IF opcode = 238 THEN Ins("Return", 0, 0)          \* 00EE
        ELSE IF n1 = 0 THEN Ins("SYS", 0, 0)                   \* 0nnn
        ELSE IF n1 = 1 THEN Ins("Jump", nnn, 0)                \* 1nnn
        ELSE IF n1 = 2 THEN Ins("Call", nnn, 0)                \* 2nnn
        ELSE IF n1 = 3 THEN Ins("SkipEqualsByte", x, kk)       \* 3xkk
        ELSE IF n1 = 4 THEN Ins("SkipNotEqualsByte", x, kk)    \* 4xkk
        ELSE IF n1 = 5 /\ n = 0 THEN Ins("SkipEqualsRegister", x, y)
        ELSE IF n1 = 6 THEN Ins("LoadByte", x, kk)             \* 6xkk
        ELSE IF n1 = 7 THEN Ins("AddByte", x, kk)              \* 7xkk
        ELSE IF n1 = 8 /\ n = 0 THEN Ins("LoadRegister", x, y)
        ELSE IF n1 = 8 /\ n = 1 THEN Ins("Or", x, y)
        ELSE IF n1 = 8 /\ n = 2 THEN Ins("And", x, y)
        ELSE IF n1 = 8 /\ n = 3 THEN Ins("Xor", x, y)
        ELSE IF n1 = 8 /\ n = 4 THEN Ins("AddRegister", x, y)
        ELSE IF n1 = 8 /\ n = 5 THEN Ins("SubRegister", x, y)
        ELSE IF n1 = 8 /\ n = 6 THEN Ins("ShiftRight", x, y)
        ELSE IF n1 = 8 /\ n = 7 THEN Ins("SubNRegister", x, y)
        ELSE IF n1 = 8 /\ n = 14 THEN Ins("ShiftLeft", x, y)
        ELSE IF n1 = 9 /\ n = 0 THEN Ins("SkipNotEqualsRegister", x, y)
        ELSE IF n1 = 10 THEN Ins("LoadImmediate", nnn, 0)      \* Annn
        ELSE IF n1 = 11 THEN Ins("JumpBase", nnn, 0)           \* Bnnn
        ELSE IF n1 = 12 THEN Ins("Random", x, kk)              \* Cxkk
        ELSE IF n1 = 13 THEN Ins("Draw", x, y)                 \* Dxyn
        ELSE IF n1 = 14 /\ kk = 158 THEN Ins("SkipKeyPressed", x, 0)
        ELSE IF n1 = 14 /\ kk = 161 THEN Ins("SkipKeyNotPressed", x, 0)
        ELSE IF n1 = 15 /\ kk = 7 THEN Ins("LoadFromDelay", x, 0)
        ELSE IF n1 = 15 /\ kk = 10 THEN Ins("LoadKey", x, 0)
        ELSE IF n1 = 15 /\ kk = 21 THEN Ins("LoadDelay", x, 0)
        ELSE IF n1 = 15 /\ kk = 24 THEN Ins("LoadSound", x, 0)
        ELSE IF n1 = 15 /\ kk = 30 THEN Ins("AddI", x, 0)
        ELSE IF n1 = 15 /\ kk = 41 THEN Ins("LoadSprite", x, 0)
        ELSE IF n1 = 15 /\ kk = 51 THEN Ins("LoadIBCD", x, 0)
        ELSE IF n1 = 15 /\ kk = 85 THEN Ins("StoreRegisters", x, 0)
        ELSE IF n1 = 15 /\ kk = 101 THEN Ins("LoadRegisters", x, 0)
        ELSE Ins("Invalid", 0, 0)

\* ---------------------------------------------------------------- state
VARIABLES
    counter,          \* Machine.counter: u16, the program counter
    stack_ptr,        \* Machine.stack_ptr: u8
    mem,              \* Machine.mem.mem: [u8; MEMORY_SIZE], as its non-zero bytes
    stack,            \* Machine.stack: [u16; STACK_SIZE]
    v,                \* Machine.v: [u8; REGISTER_COUNT]
    i,                \* Machine.i: u16
    delay_register,   \* Machine.delay_register: u8
    sound_register,   \* Machine.sound_register: u8
    skip_increment,   \* Machine.skip_increment: bool
    overflow_checks,  \* the build: TRUE panics on integer overflow, FALSE wraps
    file,             \* the bytes of the ROM file named on the command line
    load_result,      \* what load_rom returned: "none" (not called), "Ok", "Err"
    status,           \* "idle", "running" (inside start), "returned", "panicked"
    fault,            \* the Err string start returned, or the panic's message
    fetched,          \* the two-byte slice last handed to get_opcode
    opcode,           \* the opcode last assembled
    instruction,      \* the instruction last handed to execute
    op,               \* the operation that produced this state
    pre,              \* counter, stack_ptr and flag register before that operation
    ops,              \* instructions a unit test has executed directly
    test              \* "main", or the unit test that drives the machine

machine == <<counter, stack_ptr, mem, stack, v, i, delay_register,
             sound_register, skip_increment>>

vars == <<counter, stack_ptr, mem, stack, v, i, delay_register, sound_register,
          skip_increment, overflow_checks, file, load_result, status, fault,
          fetched, opcode, instruction, op, pre, ops, test>>

\* Memory is kept as the map of its non-zero bytes (what Memory's Debug
\* prints): an address of 0..MEMORY_SIZE-1 outside the map holds 0.
EmptyMemory == [a \in {} |-> 0]

MemRead(mm, a) == IF a \in DOMAIN mm THEN mm[a] ELSE 0

MemWrite(mm, a, byte) ==
    [x \in (IF byte = 0 THEN DOMAIN mm \ {a} ELSE DOMAIN mm \cup {a}) |->
        IF x = a THEN byte ELSE mm[x]]

\* The memory whose bytes are those of the array f.
Cells(f) == [a \in {x \in DOMAIN f : f[x] # 0} |-> f[a]]

\* The machine as one value (the struct Machine).
Self ==
    [counter |-> counter, stack_ptr |-> stack_ptr, mem |-> mem, stack |-> stack,
     v |-> v, i |-> i, delay_register |-> delay_register,
     sound_register |-> sound_register, skip_increment |-> skip_increment]

\* Machine::new
new ==
    [counter |-> 512, stack_ptr |-> 0,
     mem |-> EmptyMemory,
     stack |-> [s \in 0..(STACK_SIZE - 1) |-> 0],
     v |-> [r \in 0..(REGISTER_COUNT - 1) |-> 0],
     i |-> 0, delay_register |-> 0, sound_register |-> 0,
     skip_increment |-> FALSE]

\* The machine's fields become those of m.
Becomes(m) ==
    /\ counter' = m.counter
    /\ stack_ptr' = m.stack_ptr
    /\ mem' = m.mem
    /\ stack' = m.stack
    /\ v' = m.v
    /\ i' = m.i
    /\ delay_register' = m.delay_register
    /\ sound_register' = m.sound_register
    /\ skip_increment' = m.skip_increment

\* The machine's fields are those of m.
Is(m) ==
    /\ counter = m.counter
    /\ stack_ptr = m.stack_ptr
    /\ mem = m.mem
    /\ stack = m.stack
    /\ v = m.v
    /\ i = m.i
    /\ delay_register = m.delay_register
    /\ sound_register = m.sound_register
    /\ skip_increment = m.skip_increment

\* The result of a step of the machine: the machine as the step left it, and
\* "none" or the message of the panic that ended the step.
Done(m) == [m |-> m, fault |-> "none"]
Panic(m, msg) == [m |-> m, fault |-> msg]

IndexPanic == "index out of bounds"
AddPanic == "attempt to add with overflow"
SubPanic == "attempt to subtract with overflow"
UnimplementedPanic == "not implemented"
ParsePanic == "Could not parse opcode"
PcError == "PC out of bounds"

\* ---------------------------------------------------------------- helpers
\* Machine::get_opcode: the first byte widened to u16 and shifted left by 8,
\* OR-ed with the second byte.
get_opcode_swapped(b) == BitOr((b[2] * 256) % (U16_MAX + 1), b[1])

get_opcode(b) ==
    LET fb == b[1]
        sb == b[2]
        shifted == (fb * 256) % (U16_MAX + 1)
    IN  BitOr(shifted, sb)

\* Machine::inc_pc: counter += 2 on a u16.
inc_pc_by_one(m, checks) ==
    IF m.counter + 1 > U16_MAX
    THEN IF checks THEN Panic(m, AddPanic)
         ELSE Done([m EXCEPT !.counter = (m.counter + 1) % (U16_MAX + 1)])
    ELSE Done([m EXCEPT !.counter = m.counter + 1])

inc_pc(m, checks) ==
    IF m.counter + 2 > U16_MAX
    THEN IF checks THEN Panic(m, AddPanic)
         ELSE Done([m EXCEPT !.counter = (m.counter + 2) % (U16_MAX + 1)])
    ELSE Done([m EXCEPT !.counter = m.counter + 2])

\* Machine::add: the sum in a u16, the flag register overwritten with the
\* carry, the sum truncated to u8 returned.
add_sticky_flag(m, d1, d2) ==
    LET res == d1 + d2
    IN  [m |-> IF res > U8_MAX THEN [m EXCEPT !.v[FLAG_REGISTER] = 1] ELSE m,
         res |-> res % (U8_MAX + 1)]

add(m, d1, d2) ==
    LET res == d1 + d2
    IN  [m |-> [m EXCEPT !.v[FLAG_REGISTER] = IF res > U8_MAX THEN 1 ELSE 0],
         res |-> res % (U8_MAX + 1)]

\* Machine::add_16: the same on u16 operands with a u32 sum.
add_16_u8_threshold(m, d1, d2) ==
    LET res == d1 + d2
    IN  [m |-> [m EXCEPT !.v[FLAG_REGISTER] = IF res > U8_MAX THEN 1 ELSE 0],
         res |-> res % (U16_MAX + 1)]

add_16(m, d1, d2) ==
    LET res == d1 + d2
    IN  [m |-> [m EXCEPT !.v[FLAG_REGISTER] = IF res > U16_MAX THEN 1 ELSE 0],
         res |-> res % (U16_MAX + 1)]

\* An index into the registers, the stack or memory that the array holds.
InRegisters(r) == r \in 0..(REGISTER_COUNT - 1)
InStack(s) == s \in 0..(STACK_SIZE - 1)
InMemory(a) == a \in 0..(MEMORY_SIZE - 1)

\* ---------------------------------------------------------------- execute
\* Each arm of Machine::execute, statement by statement: the result is the
\* machine as the arm left it and, when a statement panicked, the panic.

\* Instruction::Return
ExecReturn(m, checks) ==
    IF ~InStack(m.stack_ptr) THEN Panic(m, IndexPanic)
    ELSE LET m1 == [m EXCEPT !.counter = m.stack[m.stack_ptr]]
         IN  IF m1.stack_ptr = 0
             THEN IF checks THEN Panic(m1, SubPanic)
                  ELSE Done([m1 EXCEPT !.stack_ptr = U8_MAX,
                                       !.skip_increment = TRUE])
             ELSE Done([m1 EXCEPT !.stack_ptr = m1.stack_ptr - 1,
                                  !.skip_increment = TRUE])

\* Instruction::Jump(address)
ExecJump_no_flag(m, address) == Done([m EXCEPT !.counter = address])

ExecJump(m, address) ==
    Done([m EXCEPT !.counter = address, !.skip_increment = TRUE])

\* Instruction::Call(address)
ExecCall_store_first(m, address, checks) ==
    IF ~InStack(m.stack_ptr) \/ ~InStack(m.stack_ptr + 1) THEN Panic(m, IndexPanic)
    ELSE Done([m EXCEPT !.stack[m.stack_ptr] = m.counter,
                        !.stack_ptr = m.stack_ptr + 1,
                        !.counter = address,
                        !.skip_increment = TRUE])

ExecCall(m, address, checks) ==
    IF m.stack_ptr = U8_MAX /\ checks THEN Panic(m, AddPanic)
    ELSE LET m1 == [m EXCEPT !.stack_ptr = (m.stack_ptr + 1) % (U8_MAX + 1)]
         IN  IF ~InStack(m1.stack_ptr) THEN Panic(m1, IndexPanic)
             ELSE Done([m1 EXCEPT !.stack[m1.stack_ptr] = m1.counter,
                                  !.counter = address,
                                  !.skip_increment = TRUE])

\* Instruction::SkipEqualsByte, SkipNotEqualsByte, SkipEqualsRegister
ExecSkipEqualsByte_operand(m, reg, byte, checks) ==
    IF ~InRegisters(reg) THEN Panic(m, IndexPanic)
    ELSE IF reg = byte THEN inc_pc(m, checks) ELSE Done(m)

ExecSkipEqualsByte(m, reg, byte, checks) ==
    IF ~InRegisters(reg) THEN Panic(m, IndexPanic)
    ELSE IF m.v[reg] = byte THEN inc_pc(m, checks) ELSE Done(m)

ExecSkipNotEqualsByte(m, reg, byte, checks) ==
    IF ~InRegisters(reg) THEN Panic(m, IndexPanic)
    ELSE IF m.v[reg] # byte THEN inc_pc(m, checks) ELSE Done(m)

ExecSkipEqualsRegister(m, reg1, reg2, checks) ==
    IF ~InRegisters(reg1) \/ ~InRegisters(reg2) THEN Panic(m, IndexPanic)
    ELSE IF m.v[reg1] = m.v[reg2] THEN inc_pc(m, checks) ELSE Done(m)

\* Instruction::LoadByte
ExecLoadByte(m, reg, byte) ==
    IF ~InRegisters(reg) THEN Panic(m, IndexPanic)
    ELSE Done([m EXCEPT !.v[reg] = byte])

\* Instruction::AddByte: the operands are read, add writes the flag, then
\* the sum is stored.
ExecAddByte_flag_last(m, reg, byte) ==
    IF ~InRegisters(reg) THEN Panic(m, IndexPanic)
    ELSE LET r == add(m, m.v[reg], byte)
         IN  Done([m EXCEPT !.v[reg] = r.res,
                            !.v[FLAG_REGISTER] = r.m.v[FLAG_REGISTER]])

ExecAddByte(m, reg, byte) ==
    IF ~InRegisters(reg) THEN Panic(m, IndexPanic)
    ELSE LET r == add(m, m.v[reg], byte)
         IN  Done([r.m EXCEPT !.v[reg] = r.res])

\* Instruction::LoadRegister, Or, And, Xor
ExecLoadRegister(m, reg1, reg2) ==
    IF ~InRegisters(reg1) \/ ~InRegisters(reg2) THEN Panic(m, IndexPanic)
    ELSE Done([m EXCEPT !.v[reg1] = m.v[reg2]])

ExecOr(m, reg1, reg2) ==
    IF ~InRegisters(reg1) \/ ~InRegisters(reg2) THEN Panic(m, IndexPanic)
    ELSE Done([m EXCEPT !.v[reg1] = BitOr(m.v[reg1], m.v[reg2])])

ExecAnd(m, reg1, reg2) ==
    IF ~InRegisters(reg1) \/ ~InRegisters(reg2) THEN Panic(m, IndexPanic)
    ELSE Done([m EXCEPT !.v[reg1] = BitAnd(m.v[reg1], m.v[reg2])])

ExecXor(m, reg1, reg2) ==
    IF ~InRegisters(reg1) \/ ~InRegisters(reg2) THEN Panic(m, IndexPanic)
    ELSE Done([m EXCEPT !.v[reg1] = BitXor(m.v[reg1], m.v[reg2])])

\* Instruction::AddRegister
ExecAddRegister(m, reg1, reg2) ==
    IF ~InRegisters(reg1) \/ ~InRegisters(reg2) THEN Panic(m, IndexPanic)
    ELSE LET r == add(m, m.v[reg1], m.v[reg2])
         IN  Done([r.m EXCEPT !.v[reg1] = r.res])

\* Instruction::LoadImmediate
ExecLoadImmediate(m, address) == Done([m EXCEPT !.i = address])

\* Instruction::Random: gen_range(0, 255) draws from the half-open range.
RandomBytes == 0..(U8_MAX - 1)

ExecRandom(m, register, data) ==
    IF ~InRegisters(register) THEN {Panic(m, IndexPanic)}
    ELSE {Done([m EXCEPT !.v[register] = BitAnd(random_byte, data)]) :
             random_byte \in RandomBytes}

\* Instruction::LoadFromDelay, LoadDelay, LoadSound
ExecLoadFromDelay(m, register) ==
    IF ~InRegisters(register) THEN Panic(m, IndexPanic)
    ELSE Done([m EXCEPT !.v[register] = m.delay_register])

ExecLoadDelay_deref(m, register) ==
    IF ~InRegisters(register) THEN Panic(m, IndexPanic)
    ELSE Done([m EXCEPT !.delay_register = m.v[register]])

ExecLoadDelay(m, register) == Done([m EXCEPT !.delay_register = register])

ExecLoadSound(m, register) == Done([m EXCEPT !.sound_register = register])

\* Instruction::AddI
ExecAddI(m, register) ==
    IF ~InRegisters(register) THEN Panic(m, IndexPanic)
    ELSE LET r == add_16(m, m.i, m.v[register])
         IN  Done([r.m EXCEPT !.i = r.res])

\* Instruction::LoadIBCD: three stores, each bounds-checked in turn.
ExecLoadIBCD(m, register) ==
    IF ~InMemory(m.i) THEN Panic(m, IndexPanic)
    ELSE LET m1 == [m EXCEPT !.mem = MemWrite(m.mem, m.i, register \div 100)]
         IN  IF ~InMemory(m.i + 1) THEN Panic(m1, IndexPanic)
             ELSE LET m2 == [m1 EXCEPT !.mem =
                                MemWrite(m1.mem, m.i + 1, (register \div 10) % 10)]
                  IN  IF ~InMemory(m.i + 2) THEN Panic(m2, IndexPanic)
                      ELSE Done([m2 EXCEPT !.mem =
                                    MemWrite(m2.mem, m.i + 2, register % 10)])

\* Instruction::StoreRegisters: for n in 0..=register, mem[i + n] = v[n];
\* the loop stops at the first index outside an array.
StoreOk(m, n) == InMemory(m.i + n) /\ InRegisters(n)

ExecStoreRegisters(m, register) ==
    LET done == {n \in 0..register : \A k \in 0..n : StoreOk(m, k)}
        stored == {m.i + n : n \in done}
        m1 == [m EXCEPT !.mem = Cells([a \in DOMAIN m.mem \cup stored |->
                        IF a \in stored THEN m.v[a - m.i] ELSE m.mem[a]])]
    IN  IF done = 0..register THEN Done(m1) ELSE Panic(m1, IndexPanic)

\* Instruction::LoadRegisters: for n in 0..=register, v[n] = mem[i + n].
ExecLoadRegisters(m, register) ==
    LET done == {n \in 0..register : \A k \in 0..n : StoreOk(m, k)}
        m1 == [m EXCEPT !.v = [r \in DOMAIN m.v |->
                        IF r \in done THEN MemRead(m.mem, m.i + r) ELSE m.v[r]]]
    IN  IF done = 0..register THEN Done(m1) ELSE Panic(m1, IndexPanic)

\* Machine::execute: the results the instruction can have (one, except for
\* Random).
execute(m, ins, checks) ==
    CASE ins.op = "ClearScreen" -> {Done(m)}
      [] ins.op = "Return" -> {ExecReturn(m, checks)}
      [] ins.op = "SYS" -> {Done(m)}
      [] ins.op = "Jump" -> {ExecJump(m, ins.a)}
      [] ins.op = "Call" -> {ExecCall(m, ins.a, checks)}
      [] ins.op = "SkipEqualsByte" -> {ExecSkipEqualsByte(m, ins.a, ins.b, checks)}
      [] ins.op = "SkipNotEqualsByte" -> {ExecSkipNotEqualsByte(m, ins.a, ins.b, checks)}
      [] ins.op = "SkipEqualsRegister" -> {ExecSkipEqualsRegister(m, ins.a, ins.b, checks)}
      [] ins.op = "LoadByte" -> {ExecLoadByte(m, ins.a, ins.b)}
      [] ins.op = "AddByte" -> {ExecAddByte(m, ins.a, ins.b)}
      [] ins.op = "LoadRegister" -> {ExecLoadRegister(m, ins.a, ins.b)}
      [] ins.op = "Or" -> {ExecOr(m, ins.a, ins.b)}
      [] ins.op = "And" -> {ExecAnd(m, ins.a, ins.b)}
      [] ins.op = "Xor" -> {ExecXor(m, ins.a, ins.b)}
      [] ins.op = "AddRegister" -> {ExecAddRegister(m, ins.a, ins.b)}
      [] ins.op = "LoadImmediate" -> {ExecLoadImmediate(m, ins.a)}
      [] ins.op = "Random" -> ExecRandom(m, ins.a, ins.b)
      [] ins.op = "LoadFromDelay" -> {ExecLoadFromDelay(m, ins.a)}
      [] ins.op = "LoadDelay" -> {ExecLoadDelay(m, ins.a)}
      [] ins.op = "LoadSound" -> {ExecLoadSound(m, ins.a)}
      [] ins.op = "AddI" -> {ExecAddI(m, ins.a)}
      [] ins.op = "LoadIBCD" -> {ExecLoadIBCD(m, ins.a)}
      [] ins.op = "StoreRegisters" -> {ExecStoreRegisters(m, ins.a)}
      [] ins.op = "LoadRegisters" -> {ExecLoadRegisters(m, ins.a)}
      [] OTHER -> {Panic(m, UnimplementedPanic)}

\* ---------------------------------------------------------------- loading
\* A ROM file: whether File::open and read succeed, and its bytes.
RomFile(bytes) == [readable |-> TRUE, bytes |-> bytes]
Unreadable == [readable |-> FALSE, bytes |-> <<>>]

\* file.read(&mut buffer): the number of bytes one read of the file puts in
\* a buffer of BUFSIZE bytes.
read(bytes) == IF Len(bytes) < BUFSIZE THEN Len(bytes) ELSE BUFSIZE

\* Machine::_copy_into_mem: a zeroed buffer of BUFSIZE bytes is filled by one
\* read and copied over mem[PROGRAM_OFFSET..]; the bytes below PROGRAM_OFFSET
\* stay.  buffer[k] is bytes[k + 1] for k < n and 0 from n on.
copy_into_mem_at_zero(m, bytes) ==
    LET n == read(bytes)
        kept == {a \in DOMAIN m.mem : a >= BUFSIZE}
        loaded == {k \in 0..(n - 1) : bytes[k + 1] # 0}
    IN  [m EXCEPT !.mem = [a \in kept \cup loaded |->
                IF a < BUFSIZE THEN bytes[a + 1] ELSE m.mem[a]]]

copy_into_mem(m, bytes) ==
    LET n == read(bytes)
        kept == {a \in DOMAIN m.mem : a < PROGRAM_OFFSET}
        loaded == {PROGRAM_OFFSET + k : k \in {j \in 0..(n - 1) : bytes[j + 1] # 0}}
    IN  [m EXCEPT !.mem = [a \in kept \cup loaded |->
                IF a >= PROGRAM_OFFSET THEN bytes[a - PROGRAM_OFFSET + 1]
                ELSE m.mem[a]]]

\* ---------------------------------------------------------------- the run loop
\* Machine::start, line 254: the bounds check at the head of the loop.
pc_out_of_bounds(m) == m.counter > 4095

\* Machine::start, lines 270-273: the advance that ends a cycle.
advance_keep_flag(m, checks) ==
    IF ~m.skip_increment THEN inc_pc(m, checks) ELSE Done(m)

advance(m, checks) ==
    LET r == IF ~m.skip_increment THEN inc_pc(m, checks) ELSE Done(m)
    IN  IF r.fault # "none" THEN r
        ELSE Done([r.m EXCEPT !.skip_increment = FALSE])

\* One iteration of the loop of Machine::start: its possible results, each
\* with the machine it leaves, whether start goes on ("running"), returned
\* its Err ("returned") or panicked, and what was fetched and decoded.
CycleResult(m, st, msg, b, oc, ins) ==
    [m |-> m, status |-> st, fault |-> msg, fetched |-> b, opcode |-> oc,
     instruction |-> ins]

cycle_skip_invalid(m, checks, b0, oc0, ins0) ==
    IF pc_out_of_bounds(m)
    THEN {CycleResult(m, "returned", PcError, b0, oc0, ins0)}
    ELSE IF ~InMemory(m.counter + 1)
    THEN {CycleResult(m, "panicked", IndexPanic, b0, oc0, ins0)}
    ELSE LET b == <<MemRead(m.mem, m.counter), MemRead(m.mem, m.counter + 1)>>
             oc == get_opcode(b)
             ins == Decode(oc)
         IN  {IF e.fault # "none"
              THEN CycleResult(e.m, "panicked", e.fault, b, oc, ins)
              ELSE LET r == advance(e.m, checks)
                   IN  IF r.fault # "none"
                       THEN CycleResult(r.m, "panicked", r.fault, b, oc, ins)
                       ELSE CycleResult(r.m, "running", "none", b, oc, ins)
              : e \in IF ins.op = "Invalid" THEN {Done(m)}
                      ELSE execute(m, ins, checks)}

cycle(m, checks, b0, oc0, ins0) ==
    IF pc_out_of_bounds(m)
    THEN {CycleResult(m, "returned", PcError, b0, oc0, ins0)}
    ELSE IF ~InMemory(m.counter + 1)
    THEN {CycleResult(m, "panicked", IndexPanic, b0, oc0, ins0)}
    ELSE LET b == <<MemRead(m.mem, m.counter), MemRead(m.mem, m.counter + 1)>>
             oc == get_opcode(b)
             ins == Decode(oc)
         IN  IF ins.op = "Invalid"
             THEN {CycleResult(m, "panicked", ParsePanic, b, oc, ins0)}
             ELSE {IF e.fault # "none"
                   THEN CycleResult(e.m, "panicked", e.fault, b, oc, ins)
                   ELSE LET r == advance(e.m, checks)
                        IN  IF r.fault # "none"
                            THEN CycleResult(r.m, "panicked", r.fault, b, oc, ins)
                            ELSE CycleResult(r.m, "running", "none", b, oc, ins)
                   : e \in execute(m, ins, checks)}

\* Machine::reset
reset(m) ==
    [m EXCEPT !.counter = 512,
              !.stack_ptr = 0,
              !.mem = EmptyMemory,
              !.stack = [s \in 0..(STACK_SIZE - 1) |-> 0],
              !.v = [r \in 0..(REGISTER_COUNT - 1) |-> 0],
              !.i = 0,
              !.delay_register = 0,
              !.sound_register = 0]

\* ---------------------------------------------------------------- ROM files
\* A file of n bytes: a jump to 0xFFA (4090) followed by load-byte opcodes
\* 6x6y whose nibbles follow the position of the byte.
Filler(n) ==
    [k \in 1..n |-> IF k = 1 THEN 31 ELSE IF k = 2 THEN 250 ELSE 96 + (k % 16)]

\* "Hello World!", the file of test_copy_into_mem_some_data.
HelloWorld == <<72, 101, 108, 108, 111, 32, 87, 111, 114, 108, 100, 33>>

\* 6000 | 70FA | 700A | 700A | 61F8 | 8014 | 3006 | 1FFF | 4006 | 5010 |
\* AFF0 | F11E | 1FFA: the additions, the skips and a jump to the last cells.
Arithmetic ==
    <<96, 0, 112, 250, 112, 10, 112, 10, 97, 248, 128, 20, 48, 6, 31, 255,
      64, 6, 80, 16, 175, 240, 241, 30, 31, 250>>

\* 2206 | 1FFA | 0000 | 00EE: a call of a subroutine that returns at once.
CallReturn == <<34, 6, 31, 250, 0, 0, 0, 238>>

\* 2204 | 0000 | 2208 | 0000 | 00EE: two nested calls, then a return.
NestedCall == <<34, 4, 0, 0, 34, 8, 0, 0, 0, 238>>

\* 6007 | AFFF | F155: registers 0..1 stored from address 4095 on.
StoreAtEnd == <<96, 7, 175, 255, 241, 85>>

\* AFFE | FF33: the three BCD digits stored from address 4094 on.
BcdAtEnd == <<175, 254, 255, 51>>

\* 2204 | 0000 | 602A | A123 | F515 | F718 | F307 | F055 | 00E0 | 0ABC | 1FFA:
\* a call, a register, I, both timers and a byte of memory are set, then
\* clear-screen, a system call and a jump are executed.
Frame ==
    <<34, 4, 0, 0, 96, 42, 161, 35, 245, 21, 247, 24, 243, 7, 240, 85,
      0, 224, 10, 188, 31, 250>>

\* 6005 | 6105 | 3005 | FFFF | 3006 | 4006 | FFFF | 4005 | 5010 | FFFF |
\* 6207 | 5020 | 6F09 | 3F09 | FFFF | 4E00 | 5FE0 | 5EE0 | FFFF: each skip
\* taken (over an FFFF) and not taken, no jump, call or return.
Skips ==
    <<96, 5, 97, 5, 48, 5, 255, 255, 48, 6, 64, 6, 255, 255, 64, 5,
      80, 16, 255, 255, 98, 7, 80, 32, 111, 9, 63, 9, 255, 255, 78, 0,
      95, 224, 94, 224, 255, 255>>

\* F515 | F718 | 60F0 | 613C | 8011 | 8012 | 8013 | 8210 | 8014 | A200 |
\* F265 | F01E | FF33 | 1FFA: the timers are set, then the register, logic
\* and memory instructions are executed.
Logic ==
    <<245, 21, 247, 24, 96, 240, 97, 60, 128, 17, 128, 18, 128, 19, 130, 16,
      128, 20, 162, 0, 242, 101, 240, 30, 255, 51, 31, 250>>

\* C0FF | C103 | 1FFA: a random byte under the masks 255 and 3.
Dice == <<192, 255, 193, 3, 31, 250>>

\* 3000 | 2300 | 6001 | 00EE: a return with an empty stack; the program is
\* reached again from address 0 and then calls 0x300.
Underflow == <<48, 0, 35, 0, 96, 1, 0, 238>>

Programs ==
    { <<>>,                \* an empty file
      <<31, 255>>,         \* 1FFF: jump to 4095
      <<31, 254>>,         \* 1FFE: jump to 4094
      <<0, 238>>,          \* 00EE: return with an empty stack
      <<34, 0>>,           \* 2200: a call of itself
      <<208, 5>>,          \* D005: draw, decoded and not executed
      <<255, 255>>,        \* FFFF: no instruction
      HelloWorld, Arithmetic, CallReturn, NestedCall,
      StoreAtEnd, BcdAtEnd, Frame, Logic, Skips, Dice, Underflow }

Files ==
    {RomFile(p) : p \in Programs}
    \cup {RomFile(Filler(n)) : n \in (BUFSIZE - 1)..(BUFSIZE + MaxExcess)}
    \cup {Unreadable}

\* ---------------------------------------------------------------- operations
\* The unit tests that drive a machine.
Tests == {"call_return", "add", "add_16", "reset", "frame", "add_flag"}

\* main: Machine::new, with the ROM file named on the command line.
Init ==
    /\ Is(new)
    /\ overflow_checks \in BOOLEAN
    /\ file \in Files
    /\ load_result = "none"
    /\ status = "idle"
    /\ fault = "none"
    /\ fetched = <<>>
    /\ opcode = 0
    /\ instruction = NoInstruction
    /\ op = "new"
    /\ pre = [counter |-> 512, stack_ptr |-> 0, flag |-> 0]
    /\ ops = 0
    /\ test = "main"

Before == [counter |-> counter, stack_ptr |-> stack_ptr, flag |-> v[FLAG_REGISTER]]

\* Machine::load_rom, as main calls it: once, on the new machine.
LoadRom ==
    /\ test \in {"main"} \cup Tests
    /\ status = "idle"
    /\ load_result = "none"
    /\ IF file.readable
       THEN /\ Becomes(copy_into_mem(Self, file.bytes))
            /\ load_result' = "Ok"
       ELSE /\ UNCHANGED machine
            /\ load_result' = "Err"
    /\ op' = "load_rom"
    /\ pre' = Before
    /\ UNCHANGED <<overflow_checks, file, status, fault, fetched, opcode,
                   instruction, ops, test>>

\* main: the ROM is loaded and Machine::start is entered.
Start ==
    /\ test = "main"
    /\ status = "idle"
    /\ load_result = "Ok"
    /\ status' = "running"
    /\ op' = "start"
    /\ pre' = Before
    /\ UNCHANGED <<machine, overflow_checks, file, load_result, fault, fetched,
                   opcode, instruction, ops, test>>

\* One iteration of the loop of Machine::start.
Cycle ==
    /\ status = "running"
    /\ \E r \in cycle(Self, overflow_checks, fetched, opcode, instruction) :
          /\ Becomes(r.m)
          /\ status' = r.status
          /\ fault' = r.fault
          /\ fetched' = r.fetched
          /\ opcode' = r.opcode
          /\ instruction' = r.instruction
    /\ op' = "cycle"
    /\ pre' = Before
    /\ UNCHANGED <<overflow_checks, file, load_result, ops, test>>

\* Machine::reset, callable whenever start is not running; a machine whose
\* thread panicked is gone.
Reset ==
    /\ test \in {"main"} \cup Tests
    /\ status \in {"idle", "returned"}
    /\ Becomes(reset(Self))
    /\ status' = "idle"
    /\ fault' = "none"
    /\ load_result' = "none"
    /\ op' = "reset"
    /\ pre' = Before
    /\ UNCHANGED <<overflow_checks, file, fetched, opcode, instruction, ops, test>>

Next == LoadRom \/ Start \/ Cycle \/ Reset

Spec == Init /\ [][Next]_vars

\* The thread main spawns for Machine::start is scheduled: the loop of start
\* goes on to its next iteration for as long as it has one.  This is weak
\* fairness of Cycle, WF_vars(Cycle), written with the condition under which
\* Cycle is enabled: start is inside its loop.
SpecRun == Spec /\ ([]<>(status # "running") \/ []<><<Cycle>>_vars)

\* ---------------------------------------------------------------- unit tests
\* The tests of mod tests build a machine with Machine::new, set some of its
\* fields (machine.counter = 25; machine.stack_ptr = 1; machine.v[1] = 1),
\* and call execute, reset and _copy_into_mem on it directly.  A fixture is
\* such a machine; every fixture below is a state a running program reaches.

\* Return addresses of s nested calls, the k-th made from address 512 + 2k.
NestedStack(s) ==
    [k \in 0..(STACK_SIZE - 1) |-> IF 1 <= k /\ k <= s THEN 512 + 2 * k ELSE 0]

FixtureStack ==
    {[new EXCEPT !.counter = p, !.stack_ptr = s, !.stack = NestedStack(s)] :
        p \in {25, 512, 4095}, s \in 0..(STACK_SIZE - 1)}

\* Registers: the even ones hold x, the odd ones y, the flag register f.
Registers(x, y, f) ==
    [r \in 0..(REGISTER_COUNT - 1) |->
        IF r = FLAG_REGISTER THEN f ELSE IF r % 2 = 0 THEN x ELSE y]

FixtureAdd ==
    {[new EXCEPT !.v = Registers(x, y, f)] :
        x \in {0, 10, 128, 250, 255}, y \in {6, 10, 255}, f \in {0, 1}}

FixtureAdd16 ==
    {[new EXCEPT !.v = Registers(x, x, f), !.i = a] :
        x \in {0, 1, 5, 6, 10, 255}, f \in {0, 1},
        a \in {0, 250, 4095, 65280, 65281, 65530, 65535}}

\* Every field set: one call made from 514, registers, I, both timers and a
\* byte of memory.
FixtureFrame ==
    {[new EXCEPT !.counter = p, !.stack_ptr = 1, !.stack = NestedStack(1),
                 !.v = Registers(10, 6, 1), !.i = 291,
                 !.delay_register = 5, !.sound_register = 7,
                 !.mem = [a \in {291} |-> 42]] : p \in {25, 512}}

\* Registers for additions into the flag register: it holds 0, 1 or 250.
FixtureAddFlag ==
    {[new EXCEPT !.v = Registers(x, 6, f)] : x \in {10, 250}, f \in {0, 1, 250}}

Fixture(t) ==
    CASE t = "call_return" -> FixtureStack
      [] t = "add" -> FixtureAdd
      [] t = "add_16" -> FixtureAdd16
      [] t = "frame" -> FixtureFrame
      [] t = "add_flag" -> FixtureAddFlag
      [] OTHER -> {new}

\* The instructions a test hands to execute.
TestInstructions(t) ==
    CASE t = "call_return" ->
            {Ins("Call", a, 0) : a \in {0, 546, 4095}} \cup {Ins("Return", 0, 0)}
      [] t = "add" ->
            {Ins("AddByte", r, b) : r \in {0, 7, 14}, b \in {10, 255}}
            \cup {Ins("AddRegister", r1, r2) : r1 \in {0, 14}, r2 \in {0, 1, 15}}
      [] t = "add_16" ->
            {Ins("AddI", r, 0) : r \in {0, 15}} \cup {Ins("AddByte", 0, 10)}
      [] t = "frame" ->
            {Ins("ClearScreen", 0, 0), Ins("SYS", 0, 0)}
            \cup {Ins("Jump", a, 0) : a \in {0, 546, 4095}}
      [] t = "add_flag" ->
            {Ins("AddByte", 15, b) : b \in {10, 255}}
            \cup {Ins("AddRegister", 15, r2) : r2 \in {0, 15}}
      [] OTHER ->
            {Ins("Jump", 546, 0), Ins("Call", 546, 0), Ins("LoadByte", 3, 7),
             Ins("AddByte", 0, 255), Ins("LoadImmediate", 1000, 0),
             Ins("LoadDelay", 5, 0), Ins("LoadSound", 9, 0),
             Ins("StoreRegisters", 3, 0), Ins("SkipEqualsByte", 0, 0)}

InitTest ==
    /\ test \in Tests
    /\ \E m \in Fixture(test) : Is(m)
    /\ overflow_checks \in BOOLEAN
    /\ file = RomFile(HelloWorld)
    /\ load_result = "none"
    /\ status = "idle"
    /\ fault = "none"
    /\ fetched = <<>>
    /\ opcode = 0
    /\ instruction = NoInstruction
    /\ op = "new"
    /\ pre = Before
    /\ ops = 0

\* A test calls machine.execute(&instruction).
ExecuteCall ==
    /\ test \in Tests
    /\ status = "idle"
    /\ ops < MaxOps
    /\ \E ins \in TestInstructions(test) :
          \E e \in execute(Self, ins, overflow_checks) :
             /\ Becomes(e.m)
             /\ instruction' = ins
             /\ fault' = e.fault
             /\ status' = IF e.fault = "none" THEN "idle" ELSE "panicked"
    /\ op' = "execute"
    /\ pre' = Before
    /\ ops' = ops + 1
    /\ UNCHANGED <<overflow_checks, file, load_result, fetched, opcode, test>>

NextTest == ExecuteCall \/ Reset \/ LoadRom

SpecTest == InitTest /\ [][NextTest]_vars

\* test_create_opcode: get_opcode called on a two-byte slice.
InitCreateOpcode ==
    /\ test = "create_opcode"
    /\ Is(new)
    /\ overflow_checks \in BOOLEAN
    /\ file = RomFile(<<>>)
    /\ load_result = "none"
    /\ status = "idle"
    /\ fault = "none"
    /\ fetched \in {<<b0, b1>> : b0 \in 0..U8_MAX, b1 \in 0..U8_MAX}
    /\ opcode = 0
    /\ instruction = NoInstruction
    /\ op = "new"
    /\ pre = Before
    /\ ops = 0

GetOpcodeCall ==
    /\ test = "create_opcode"
    /\ op = "new"
    /\ opcode' = get_opcode(fetched)
    /\ op' = "get_opcode"
    /\ UNCHANGED <<machine, overflow_checks, file, load_result, status, fault,
                   fetched, instruction, pre, ops, test>>

InitOpcode == Init \/ InitCreateOpcode

NextOpcode == Next \/ GetOpcodeCall

SpecOpcode == InitOpcode /\ [][NextOpcode]_vars

\* ---------------------------------------------------------------- properties
\* A step in which a unit test executed an instruction.
Executed == op' = "execute" /\ ops' = ops + 1

\* C1: a cycle that starts with the program counter above 4094 ends with
\* start returning the "out of bounds" error, nothing fetched or executed.
C1_FetchPastEndFaults ==
    (op = "cycle" /\ pre.counter > 4094) =>
        (status = "returned" /\ fault = PcError)

\* C2: call(a) executed with stack pointer s in 0..14 and program counter p
\* leaves stack pointer s + 1, stack[s + 1] = p, the other slots unchanged and
\* the program counter a; a return executed right after it restores p and s.
C2_CallThenReturn ==
    [][/\ (Executed /\ instruction'.op = "Call" /\ stack_ptr \in 0..14) =>
            /\ fault' = "none"
            /\ stack_ptr' = stack_ptr + 1
            /\ stack' = [stack EXCEPT ![stack_ptr + 1] = counter]
            /\ counter' = instruction'.a
       /\ (/\ op = "execute" /\ instruction.op = "Call" /\ fault = "none"
           /\ pre.stack_ptr \in 0..14
           /\ Executed /\ instruction'.op = "Return") =>
            /\ fault' = "none"
            /\ counter' = pre.counter
            /\ stack_ptr' = pre.stack_ptr]_vars

\* A return has just undone a call made from address 25 with stack pointer 14.
C2_Witness ==
    /\ op = "execute" /\ instruction.op = "Return" /\ fault = "none"
    /\ counter = 25 /\ stack_ptr = 14 /\ stack[15] = 25

\* C3: add-byte and add-register with a destination r in 0..14 leave
\* V[r] = (x + y) mod 256 and V[15] = 1 if x + y > 255, 0 otherwise, where x
\* is V[r] and y the immediate byte or V[r2] before the instruction.
C3_AddSetsCarry ==
    [][(/\ Executed
        /\ instruction'.op \in {"AddByte", "AddRegister"}
        /\ instruction'.a \in 0..14) =>
            LET r == instruction'.a
                x == v[r]
                y == IF instruction'.op = "AddByte" THEN instruction'.b
                     ELSE v[instruction'.b]
            IN  /\ v'[r] = (x + y) % 256
                /\ v'[15] = IF x + y > 255 THEN 1 ELSE 0]_vars

\* An addition that does not overflow has cleared a flag of 1.
C3_Witness ==
    /\ op = "execute" /\ instruction.op \in {"AddByte", "AddRegister"}
    /\ instruction.a \in 0..14
    /\ pre.flag = 1 /\ v[15] = 0

\* C4: add-to-address(r) leaves I = (I + V[r]) mod 65536 and V[15] = 1
\* exactly when I + V[r] > 65535, 0 otherwise.
C4_AddIUses16BitCarry ==
    [][(Executed /\ instruction'.op = "AddI") =>
            LET sum == i + v[instruction'.a]
            IN  /\ i' = sum % 65536
                /\ v'[15] = IF sum > 65535 THEN 1 ELSE 0]_vars

\* I = 65530 plus a register of 10 has wrapped to 4 with the flag set.
C4_Witness ==
    /\ op = "execute" /\ instruction.op = "AddI" /\ instruction.a = 0
    /\ v[0] = 10 /\ i = 4 /\ v[15] = 1

\* C5: reset leaves every field of the machine as Machine::new makes it,
\* the suppress-increment flag included.
C5_ResetRestoresNew == op = "reset" => Is(new)

\* C6: loading a file of N <= 3584 bytes into a new machine puts its bytes
\* at 512..512+N-1 and leaves every other byte of memory 0.
C6_LoadVerbatim ==
    (op = "load_rom" /\ load_result = "Ok" /\ Len(file.bytes) <= 3584) =>
        \A a \in 0..4095 :
            MemRead(mem, a) =
                IF 512 <= a /\ a < 512 + Len(file.bytes)
                THEN file.bytes[a - 511] ELSE 0

\* A file of exactly 3584 bytes is loaded: its last byte is at 4095.
C6_Witness ==
    /\ op = "load_rom" /\ load_result = "Ok"
    /\ Len(file.bytes) = 3584
    /\ MemRead(mem, 4095) = file.bytes[3584]
    /\ MemRead(mem, 4095) # 0

\* C7: loading a file of more than 3584 bytes returns an error.
C7_OverlongLoadFails ==
    (op = "load_rom" /\ Len(file.bytes) > 3584) => load_result = "Err"

\* C8: the opcode assembled from the bytes (b0, b1) is 256 * b0 + b1, and
\* the bytes a cycle assembles are memory[pc] and memory[pc + 1].
C8_OpcodeBigEndian ==
    [][/\ (op' \in {"cycle", "get_opcode"} /\ fetched' # <<>>) =>
            opcode' = 256 * fetched'[1] + fetched'[2]
       /\ (status = "running" /\ counter <= 4094) =>
            fetched' = <<MemRead(mem, counter), MemRead(mem, counter + 1)>>]_vars

\* get_opcode(&[0x31, 0x42]) has returned 0x3142.
C8_Witness ==
    op = "get_opcode" /\ fetched = <<49, 66>> /\ opcode = 12610

\* C9: in the run loop the suppress-increment flag is false when a cycle
\* starts; a cycle that executes jump, call or return ends at the target, any
\* other one that does not fault 2 further (4 for a taken skip), and the flag
\* is false again.
C9_SuppressionLastsOneCycle ==
    [][status = "running" =>
        /\ skip_increment = FALSE
        /\ status' = "running" =>
            /\ skip_increment' = FALSE
            /\ counter' =
                CASE instruction'.op \in {"Jump", "Call"} -> instruction'.a
                  [] instruction'.op = "Return" -> stack[stack_ptr]
                  [] instruction'.op = "SkipEqualsByte" ->
                        counter + (IF v[instruction'.a] = instruction'.b
                                   THEN 4 ELSE 2)
                  [] instruction'.op = "SkipNotEqualsByte" ->
                        counter + (IF v[instruction'.a] # instruction'.b
                                   THEN 4 ELSE 2)
                  [] instruction'.op = "SkipEqualsRegister" ->
                        counter + (IF v[instruction'.a] = v[instruction'.b]
                                   THEN 4 ELSE 2)
                  [] OTHER -> counter + 2]_vars

\* The cycle after a jump to 4090 has advanced by 2.
C9_Witness ==
    /\ op = "cycle" /\ status = "running"
    /\ pre.counter = 4090 /\ counter = 4092 /\ skip_increment = FALSE

\* C10: the stack pointer is in 0..15 in every reachable state.
C10_StackPtrInRange == stack_ptr \in 0..15

\* C11: a cycle whose opcode the decoder does not recognise ends the run
\* before execute: no field of the machine changes, the program counter
\* stays at the opcode, nothing is executed, and no step follows the fault.
C11_DecodeFaultStopsCycle ==
    [][/\ (/\ status = "running" /\ counter <= 4094
           /\ Decode(get_opcode(<<MemRead(mem, counter),
                                  MemRead(mem, counter + 1)>>)).op = "Invalid") =>
            /\ UNCHANGED machine
            /\ status' # "running"
            /\ instruction' = instruction
       /\ fault = ParsePanic => UNCHANGED vars]_vars

\* "Hello World!" run as a program: 4865 skips, 6F20 loads 32 into V15, and
\* 576F at 518 is no instruction.
C11_Witness ==
    /\ op = "cycle" /\ status = "panicked" /\ fault = ParsePanic
    /\ fetched = <<87, 111>> /\ counter = 518 /\ v[15] = 32

\* C12: an instruction that faults leaves every field of the machine as it
\* was before the instruction.
C12_ExecuteFaultIsAtomic ==
    [][(/\ op' \in {"cycle", "execute"} /\ status' = "panicked"
        /\ fault' \in {IndexPanic, AddPanic, SubPanic}) =>
            UNCHANGED machine]_vars

\* C13: a run ends only by start returning a fault, never by a panic.
C13_FaultsAreReturned ==
    /\ status \in {"idle", "running", "returned"}
    /\ status = "returned" => fault = PcError

\* C14: the delay timer changes only in a cycle that executes write-delay,
\* the sound timer only in one that executes write-sound, or by reset; the
\* timer written equals the instruction's operand itself, and the registers
\* and the other timer stay as they were.
C14_TimersWrittenOnlyByLoad ==
    [][LET ran == op' = "cycle" /\ status' = "running"
       IN  /\ delay_register' # delay_register =>
                op' = "reset" \/ (ran /\ instruction'.op = "LoadDelay")
           /\ sound_register' # sound_register =>
                op' = "reset" \/ (ran /\ instruction'.op = "LoadSound")
           /\ (ran /\ instruction'.op = "LoadDelay") =>
                /\ delay_register' = instruction'.a
                /\ v' = v /\ sound_register' = sound_register
           /\ (ran /\ instruction'.op = "LoadSound") =>
                /\ sound_register' = instruction'.a
                /\ v' = v /\ delay_register' = delay_register]_vars

\* F515 and F718 wrote 5 and 7 while V5 and V7 held 0, F307 read the delay
\* timer back, and the timers still hold 5 and 7 three instructions later.
C14_Witness ==
    /\ op = "cycle" /\ status = "running" /\ instruction.op = "Jump"
    /\ delay_register = 5 /\ sound_register = 7
    /\ v[3] = 5 /\ v[5] = 0 /\ v[7] = 0

\* C15: random(r, m) can leave in V[r] the byte b & m for every b of 0..255,
\* and nothing else.
C15_RandomDrawsEveryByte ==
    (status = "running" /\ counter <= 4094) =>
        LET ins == Decode(get_opcode(<<MemRead(mem, counter),
                                       MemRead(mem, counter + 1)>>))
        IN  ins.op = "Random" =>
                {e.m.v[ins.a] : e \in execute(Self, ins, overflow_checks)}
                    = {BitAnd(b, ins.b) : b \in 0..255}

\* C16: execute of clear-screen or system-call changes no field of the
\* machine; execute of jump(a) sets the program counter to a and the
\* suppress-increment flag, and changes nothing else.
C16_ClsSysJumpFrame ==
    [][Executed =>
        /\ instruction'.op \in {"ClearScreen", "SYS"} =>
                fault' = "none" /\ UNCHANGED machine
        /\ instruction'.op = "Jump" =>
                /\ fault' = "none"
                /\ counter' = instruction'.a
                /\ skip_increment' = TRUE
                /\ UNCHANGED <<stack_ptr, mem, stack, v, i, delay_register,
                               sound_register>>]_vars

\* A clear-screen executed after a jump to 0x222 on the machine with every
\* field set.
C16_Witness ==
    /\ op = "execute" /\ instruction.op = "ClearScreen" /\ fault = "none"
    /\ counter = 546 /\ skip_increment = TRUE
    /\ stack_ptr = 1 /\ stack[1] = 514 /\ v[0] = 10 /\ i = 291
    /\ delay_register = 5 /\ sound_register = 7 /\ MemRead(mem, 291) = 42

\* C17: a cycle that executes skip-if-equal-byte(r, b) advances the program
\* counter by 4 when V[r] = b and by 2 otherwise, skip-if-not-equal-byte(r, b)
\* by 4 when V[r] # b, skip-if-registers-equal(r1, r2) by 4 when
\* V[r1] = V[r2]; registers, memory, the stack, I and the timers stay.
C17_SkipsCompareRegisters ==
    [][(/\ status = "running" /\ op' = "cycle" /\ status' = "running"
        /\ instruction'.op \in {"SkipEqualsByte", "SkipNotEqualsByte",
                                "SkipEqualsRegister"}) =>
            LET a == instruction'.a
                b == instruction'.b
                taken == CASE instruction'.op = "SkipEqualsByte" -> v[a] = b
                           [] instruction'.op = "SkipNotEqualsByte" -> v[a] # b
                           [] OTHER -> v[a] = v[b]
            IN  /\ counter' = counter + (IF taken THEN 4 ELSE 2)
                /\ UNCHANGED <<stack_ptr, mem, stack, v, i, delay_register,
                               sound_register>>]_vars

\* 5010 at 528 with V0 = V1 = 5 has skipped the FFFF at 530.
C17_Witness ==
    /\ op = "cycle" /\ status = "running"
    /\ instruction = Ins("SkipEqualsRegister", 0, 1)
    /\ v[0] = 5 /\ v[1] = 5 /\ pre.counter = 528 /\ counter = 532

\* C18: when the cycle after a call made at address p executes the matching
\* return, the program counter becomes p + 2, the instruction after the call.
C18_ReturnResumesAfterCall ==
    [][(/\ op = "cycle" /\ status = "running" /\ instruction.op = "Call"
        /\ op' = "cycle" /\ status' = "running" /\ instruction'.op = "Return") =>
            counter' = pre.counter + 2]_vars

\* C19: a cycle that executes no jump, call or return moves the program
\* counter up and keeps it even; a run goes on only until start returns
\* "PC out of bounds", unless it faults or executes a jump, call or return.
C19_StraightLineTerminates ==
    /\ [][(/\ status = "running" /\ op' = "cycle" /\ status' = "running"
           /\ instruction'.op \notin {"Jump", "Call", "Return"}) =>
                /\ counter' > counter
                /\ counter % 2 = 0 => counter' % 2 = 0]_vars
    /\ [](status = "returned" => fault = PcError)
    /\ (status = "running") ~>
            \/ status = "returned" /\ fault = PcError
            \/ status = "panicked"
            \/ op = "cycle" /\ instruction.op \in {"Jump", "Call", "Return"}

\* The program of skips, which has no jump, call or return, ran to the end
\* of memory and start returned with the program counter at 4096.
C19_Witness ==
    /\ status = "returned" /\ fault = PcError
    /\ file.bytes = Skips /\ counter = 4096 /\ v[15] = 9 /\ stack_ptr = 0

\* C20: slot 0 of the stack holds 0 in every state, and a call executed with
\* stack pointer 15, the 16th nested call, faults.
C20_StackSlotZeroUnused ==
    /\ stack[0] = 0
    /\ (op = "cycle" /\ instruction.op = "Call" /\ pre.stack_ptr = 15) =>
            status = "panicked"

\* C21: add-byte and add-register whose destination is register 15 leave
\* V[15] = (x + y) mod 256, the truncated sum and not the carry, where x is
\* V[15] and y the immediate byte or V[r2] before the instruction; the other
\* registers stay.
C21_AddIntoFlagKeepsSum ==
    [][(/\ Executed
        /\ instruction'.op \in {"AddByte", "AddRegister"}
        /\ instruction'.a = 15) =>
            LET x == v[15]
                y == IF instruction'.op = "AddByte" THEN instruction'.b
                     ELSE v[instruction'.b]
            IN  /\ fault' = "none"
                /\ v' = [v EXCEPT ![15] = (x + y) % 256]]_vars

\* 250 + 10 in register 15: the sum 260 carries, and V15 holds 4, not 1.
C21_Witness ==
    /\ op = "execute" /\ instruction = Ins("AddByte", 15, 10) /\ fault = "none"
    /\ pre.flag = 250 /\ v[15] = 4
====
